---- MODULE Spec2Model ----
(***************************************************************************)
(* The 3-D scene logic of the GMTI PyQt6 visualizer                        *)
(* (src/pyqt_visualizer/main.py, src/pyqt_visualizer/geometry.py).         *)
(*                                                                         *)
(* Numbers.  The program computes in IEEE doubles; the model computes in   *)
(* fixed point:                                                            *)
(*   - scenario area extents in 1e-7 km, camera/grid distances in 1e-4 m   *)
(*     (DistUnit per metre), so a change of the target distance below the  *)
(*     program's 1e-3 m threshold is representable;                        *)
(*   - ranges, altitudes and scene coordinates in whole metres;            *)
(*   - angles in millidegrees (the elevation threshold 1e-3 deg is 1);     *)
(*   - Doppler in 0.1 m/s, SNR in dB, marker sizes in 1/100 px;            *)
(*   - sines and cosines scaled by TrigScale, from a one-degree table with *)
(*     linear interpolation.                                               *)
(* Widgets that only show text (status labels, table, log, zoom label)     *)
(* are not part of the scene state and are left out.                       *)
(***************************************************************************)
EXTENDS Integers, Sequences, FiniteSets, TLC

VARIABLES
    feed,                    \* what the telemetry source serves (fixed per run)
    view_mode,               \* self.view_mode
    last_detection_records,  \* self.last_detection_records
    last_metadata,           \* self.last_metadata
    camera_zoom_factor,      \* self.camera_zoom_factor, in percent (slider value)
    manual_zoom_active,      \* self.manual_zoom_active
    target_distance,         \* self.target_distance
    distance,                \* self.gl_view.opts["distance"]
    zoom_basis,              \* target_distance as of the latest write of distance (history)
    grid_size,               \* self.grid size  <<x, y>>
    axis_size,               \* self.axis_item size <<x, y, z>>
    axis_label,              \* self.axis_label tick values
    scatter,                 \* self.scatter data
    gl_items,                \* self.gl_view.items, in attachment order
    detection_spheres,       \* self.detection_spheres
    detection_labels,        \* self.detection_labels
    last_pass,               \* what the most recent update pass did (history)
    raised,                  \* an exception left a slot of the window unhandled
    issued,                  \* number of FetchPayloadTasks started so far (history)
    pending,                 \* the fetches in flight on self.thread_pool, by serial
    shown,                   \* serial of the fetch whose payload is displayed (history)
    newest_done,             \* latest-issued fetch that has delivered a result (history)
    stream_running,          \* self.stream_running
    stream_remaining,        \* self.stream_remaining
    stream_elapsed,          \* self.stream_elapsed
    stream_start_ts,         \* self.stream_start_ts, in seconds
    stream_timer,            \* self.stream_timer.isActive()
    stream_log,              \* the latest stream handler and the configs it posted (history)
    run_ticks,               \* ticks of the current run that posted a config (history)
    probe                    \* a function under test: its inputs and its result

\* The fetch bookkeeping, and the variables of the window proper
fetch_vars == <<issued, pending, shown, newest_done>>

\* The fields of the 10-minute streaming run
stream_vars == <<stream_running, stream_remaining, stream_elapsed, stream_start_ts,
                 stream_timer, stream_log, run_ticks>>

vars == <<feed, view_mode, last_detection_records, last_metadata, camera_zoom_factor,
          manual_zoom_active, target_distance, distance, zoom_basis, grid_size, axis_size,
          axis_label, scatter, gl_items, detection_spheres, detection_labels,
          last_pass, raised, issued, pending, shown, newest_done, stream_running,
          stream_remaining, stream_elapsed, stream_start_ts, stream_timer,
          stream_log, run_ticks, probe>>

(***************************************************************************)
(* Fixed-point arithmetic                                                  *)
(***************************************************************************)
DistUnit == 10 ^ 4          \* distance units per metre
TrigScale == 10 ^ 5         \* scale of sines and cosines
MilliDeg == 10 ^ 3          \* angle units per degree

Max2(a, b) == IF a >= b THEN a ELSE b
Min2(a, b) == IF a <= b THEN a ELSE b
Abs(a) == IF a < 0 THEN -a ELSE a

\* a / b rounded toward zero (b > 0)
Quot(a, b) == IF a >= 0 THEN a \div b ELSE -((-a) \div b)

\* a * p / q without overflowing 32 bits (a, p >= 0, q > 0, q small)
MulDiv(a, p, q) == (a \div q) * p + ((a % q) * p) \div q

\* a / b rounded to the nearest integer, halves away from zero (b > 0)
RoundDiv(a, b) == IF a >= 0 THEN (2 * a + b) \div (2 * b)
                  ELSE -((2 * (-a) + b) \div (2 * b))

\* sin(d degrees) * TrigScale for d = 0..90
SinTable == <<0, 1745, 3490, 5234, 6976, 8716, 10453, 12187, 13917, 15643,
    17365, 19081, 20791, 22495, 24192, 25882, 27564, 29237, 30902, 32557,
    34202, 35837, 37461, 39073, 40674, 42262, 43837, 45399, 46947, 48481,
    50000, 51504, 52992, 54464, 55919, 57358, 58779, 60182, 61566, 62932,
    64279, 65606, 66913, 68200, 69466, 70711, 71934, 73135, 74314, 75471,
    76604, 77715, 78801, 79864, 80902, 81915, 82904, 83867, 84805, 85717,
    86603, 87462, 88295, 89101, 89879, 90631, 91355, 92050, 92718, 93358,
    93969, 94552, 95106, 95630, 96126, 96593, 97030, 97437, 97815, 98163,
    98481, 98769, 99027, 99255, 99452, 99619, 99756, 99863, 99939, 99985,
    100000>>

SinDeg(d) == SinTable[d + 1]

\* sine of a first-quadrant angle a in 0..90000 millidegrees
SinQ(a) ==
    LET d == a \div MilliDeg
        f == a % MilliDeg
    IN  IF f = 0 THEN SinDeg(d)
        ELSE SinDeg(d) + ((SinDeg(d + 1) - SinDeg(d)) * f) \div MilliDeg

\* math.sin(math.radians(a)) for a in millidegrees
Sin(a) ==
    LET r == a % (360 * MilliDeg)
    IN  IF r <= 90 * MilliDeg THEN SinQ(r)
        ELSE IF r <= 180 * MilliDeg THEN SinQ(180 * MilliDeg - r)
        ELSE IF r <= 270 * MilliDeg THEN -SinQ(r - 180 * MilliDeg)
        ELSE -SinQ(360 * MilliDeg - r)

\* math.cos(math.radians(a)) for a in millidegrees
Cos(a) == Sin(a + 90 * MilliDeg)

\* math.degrees(math.asin(r / TrigScale)) in millidegrees, r in 0..TrigScale
\* The whole degree d in lo..hi with sin(d) <= r < sin(d + 1), by bisection
RECURSIVE AsinFloor(_, _, _)
AsinFloor(r, lo, hi) ==
    IF lo = hi THEN lo
    ELSE IF SinDeg((lo + hi + 1) \div 2) <= r
         THEN AsinFloor(r, (lo + hi + 1) \div 2, hi)
         ELSE AsinFloor(r, lo, (lo + hi + 1) \div 2 - 1)

AsinDeg(r) ==
    IF r >= TrigScale THEN 90 * MilliDeg
    ELSE CHOOSE a \in {d * MilliDeg
                       + ((r - SinDeg(d)) * MilliDeg) \div (SinDeg(d + 1) - SinDeg(d)) :
                       d \in {AsinFloor(r, 0, 89)}} : TRUE

(***************************************************************************)
(* Metadata and detection records                                          *)
(***************************************************************************)
KmUnit == 10 ^ 7            \* area units per kilometre

\* A metadata value: a key that is missing, a JSON null, a value float()
\* rejects, or a number.
Absent == [tag |-> "absent"]
Null == [tag |-> "null"]
Unparsable == [tag |-> "str"]
Num(v) == [tag |-> "num", v |-> v]
\* Values json.loads also delivers: a value of a type float() rejects (a
\* list, an object), an integer beyond the range of a double, and NaN
WrongType == [tag |-> "list"]
Huge == [tag |-> "huge"]
NaN == [tag |-> "nan"]

\* metadata.get(primary, metadata.get(fallback)): None stands for "no value"
MetaGet(metadata, primary, fallback) ==
    IF metadata[primary] # Absent THEN metadata[primary]
    ELSE IF metadata[fallback] # Absent THEN metadata[fallback]
    ELSE Null

\* PyQtVisualizer._extract_area_value
ExtractAreaValue(metadata, primary, fallback, default) ==
    LET raw == MetaGet(metadata, primary, fallback)
    IN  IF raw = Null THEN default
        ELSE IF raw.tag = "num" THEN raw.v
        ELSE default

\* float(raw): the number, the not-a-number, or the exception raised
FloatOf(raw) ==
    IF raw.tag = "num" THEN [kind |-> "value", v |-> raw.v]
    ELSE IF raw.tag = "nan" THEN [kind |-> "nan"]
    ELSE IF raw.tag = "huge" THEN [kind |-> "OverflowError"]
    ELSE IF raw.tag = "str" THEN [kind |-> "ValueError"]
    ELSE [kind |-> "TypeError"]

\* PyQtVisualizer._extract_area_value with what leaves the call: a returned
\* number, a returned not-a-number, or an exception the handler lets through
ExtractOutcome(metadata, primary, fallback, default) ==
    LET raw == MetaGet(metadata, primary, fallback)
    IN  IF raw = Null THEN [kind |-> "value", v |-> default]
        ELSE IF FloatOf(raw).kind \in {"TypeError", "ValueError"}
             THEN [kind |-> "value", v |-> default]
             ELSE FloatOf(raw)

\* max(extent, 10.0) of lines 511-516 on an outcome: max returns its first
\* argument when no comparison with it is true, so a not-a-number stays
HalfSpanOutcome(outcome) ==
    IF outcome.kind = "value"
    THEN [kind |-> "value", v |-> Max2(outcome.v, 10 * KmUnit)]
    ELSE outcome

AreaDefaultKm == 10         \* default and floor of the area extents, km
AltitudeDefault == 4000     \* default platform altitude, m
ElevationEps == MilliDeg \div 1000   \* 1e-3 degrees

\* Faulty variant of ResolveDetectionElevation: the threshold test without abs()
ResolveTrustingPositiveOnly(record, metadata) ==
    IF record.elevation_deg > ElevationEps THEN record.elevation_deg
    ELSE IF record.range <= 0
            \/ ExtractAreaValue(metadata, "altitude_m", "platform_altitude_m",
                                AltitudeDefault) <= 0
         THEN record.elevation_deg
         ELSE -AsinDeg(Min2((ExtractAreaValue(metadata, "altitude_m",
                                              "platform_altitude_m", AltitudeDefault)
                             * TrigScale) \div record.range, TrigScale))

\* Faulty variant of ResolveDetectionElevation: the synthesized angle is not negated
ResolvePositiveAngle(record, metadata) ==
    IF Abs(record.elevation_deg) > ElevationEps THEN record.elevation_deg
    ELSE IF record.range <= 0
            \/ ExtractAreaValue(metadata, "altitude_m", "platform_altitude_m",
                                AltitudeDefault) <= 0
         THEN record.elevation_deg
         ELSE AsinDeg(Min2((ExtractAreaValue(metadata, "altitude_m",
                                             "platform_altitude_m", AltitudeDefault)
                            * TrigScale) \div record.range, TrigScale))

\* PyQtVisualizer._resolve_detection_elevation (millidegrees)
ResolveDetectionElevation(record, metadata) ==
    LET base == record.elevation_deg
        rng == record.range
        altitude == ExtractAreaValue(metadata, "altitude_m",
                                     "platform_altitude_m", AltitudeDefault)
    IN  IF Abs(base) > ElevationEps THEN base
        ELSE IF rng <= 0 \/ altitude <= 0 THEN base
        ELSE -AsinDeg(Min2((altitude * TrigScale) \div rng, TrigScale))

\* Faulty variant of ProjectDetectionCoordinates: the horizontal range is not clamped
ProjectWithoutClamp(record, metadata, mode, half_span_x_m, half_span_y_m, area_radius, max_range_value, max_doppler) ==
    IF mode = "polar"
    THEN <<Quot(Quot(record.range * Cos(record.elevation_deg), TrigScale)
                * Cos(record.bearing_deg), TrigScale),
           Quot(Quot(record.range * Cos(record.elevation_deg), TrigScale)
                * Sin(record.bearing_deg), TrigScale)>>
    ELSE <<Quot(record.range * half_span_x_m, max_range_value),
           IF max_doppler > 0
           THEN Max2(-half_span_y_m,
                     Min2(half_span_y_m,
                          Quot(record.doppler * half_span_y_m, max_doppler)))
           ELSE 0>>

\* Faulty variant of ProjectDetectionCoordinates: sine and cosine of the bearing swapped
ProjectSwappedAxes(record, metadata, mode, half_span_x_m, half_span_y_m, area_radius, max_range_value, max_doppler) ==
    IF mode = "polar"
    THEN <<Quot(Min2(Max2(Quot(record.range * Cos(record.elevation_deg), TrigScale), 0),
                     area_radius) * Sin(record.bearing_deg), TrigScale),
           Quot(Min2(Max2(Quot(record.range * Cos(record.elevation_deg), TrigScale), 0),
                     area_radius) * Cos(record.bearing_deg), TrigScale)>>
    ELSE <<Quot(record.range * half_span_x_m, max_range_value),
           IF max_doppler > 0
           THEN Max2(-half_span_y_m,
                     Min2(half_span_y_m,
                          Quot(record.doppler * half_span_y_m, max_doppler)))
           ELSE 0>>

\* Faulty variant of ProjectDetectionCoordinates: the normalized Doppler is not clamped
ProjectUnclampedDoppler(record, metadata, mode, half_span_x_m, half_span_y_m, area_radius, max_range_value, max_doppler) ==
    IF mode = "polar"
    THEN <<Quot(Min2(Max2(Quot(record.range * Cos(record.elevation_deg), TrigScale), 0),
                     area_radius) * Cos(record.bearing_deg), TrigScale),
           Quot(Min2(Max2(Quot(record.range * Cos(record.elevation_deg), TrigScale), 0),
                     area_radius) * Sin(record.bearing_deg), TrigScale)>>
    ELSE <<Quot(record.range * half_span_x_m, max_range_value),
           IF max_doppler > 0
           THEN Quot(record.doppler * half_span_y_m, max_doppler)
           ELSE 0>>

\* geometry.project_detection_coordinates (whole metres)
ProjectDetectionCoordinates(record, metadata, mode, half_span_x_m, half_span_y_m, area_radius, max_range_value, max_doppler) ==
    LET rng == record.range
        doppler == record.doppler
        \* normalized_doppler * half_span_y_m, the clamp applied to the product
        y_cart == IF max_doppler > 0
                  THEN Max2(-half_span_y_m,
                            Min2(half_span_y_m,
                                 Quot(doppler * half_span_y_m, max_doppler)))
                  ELSE 0
        horizontal_range ==
            Min2(Max2(Quot(rng * Cos(record.elevation_deg), TrigScale), 0),
                 area_radius)
    IN  IF mode = "polar"
        THEN <<Quot(horizontal_range * Cos(record.bearing_deg), TrigScale),
               Quot(horizontal_range * Sin(record.bearing_deg), TrigScale)>>
        ELSE <<Quot(rng * half_span_x_m, max_range_value), y_cart>>

\* PyQtVisualizer._axis_ticks_label: the 11 tick values as printed, in
\* tenths of a kilometre (format "+.1f")
AxisTicksLabel(min_km, max_km) ==
    LET span == Max2(max_km - min_km, KmUnit \div 10)
        step == Max2(span \div 10, KmUnit \div 10)
    IN  [i \in 1..11 |-> RoundDiv(min_km + (i - 1) * step, KmUnit \div 10)]

(***************************************************************************)
(* Scene framing and zoom                                                  *)
(***************************************************************************)
ZoomFloorM == 3000          \* least displayed camera distance, m
TargetFloorM == 6000        \* least target camera distance, m
InitTargetM == 12000        \* target_distance set by __init__, m
InitCameraM == 12000        \* setCameraPosition(distance=...) in _setup_ui, m
ZoomMin == 60               \* zoom_slider.setRange minimum
ZoomMax == 200              \* zoom_slider.setRange maximum
ZoomNeutral == 100          \* slider value of factor 1.0
ChangeEps == DistUnit \div 1000      \* 1e-3 m

\* half_span_km * 1000.0: kilometres to metres, in distance units
KmToM(v) == v * ((1000 * DistUnit) \div KmUnit)

\* Faulty variant of ZoomDistance: the zoom factor is ignored
ZoomDistanceIgnoringFactor(target, manual, factor) ==
    Max2(target, ZoomFloorM * DistUnit)

\* The distance PyQtVisualizer._apply_zoom writes to gl_view.opts["distance"]
ZoomDistance(target, manual, factor) ==
    IF manual THEN Max2(MulDiv(target, factor, ZoomNeutral), ZoomFloorM * DistUnit)
    ELSE Max2(target, ZoomFloorM * DistUnit)

\* Faulty variant of HalfSpanKm: no 10 km floor
HalfSpanUnfloored(extent) == extent

\* Faulty variant of NewTargetDistance: the grid extents are left out
TargetDistanceAxisOnly(grid_width, grid_height, axis_z) ==
    Max2(axis_z, TargetFloorM * DistUnit)

\* max(extent, 10.0): the half span of an area extent (lines 511-516)
HalfSpanKm(extent) == Max2(extent, AreaDefaultKm * KmUnit)

\* new_target_distance (line 529)
NewTargetDistance(grid_width, grid_height, axis_z) ==
    Max2(Max2(grid_width, grid_height), Max2(axis_z, TargetFloorM * DistUnit))

\* PyQtVisualizer._update_3d_view, lines 511-529: the scene frame
SceneFrame(metadata) ==
    LET half_span_x_km ==
            HalfSpanKm(ExtractAreaValue(metadata, "area_width_km", "area_width",
                                        AreaDefaultKm * KmUnit))
        half_span_y_km ==
            HalfSpanKm(ExtractAreaValue(metadata, "area_height_km", "area_height",
                                        AreaDefaultKm * KmUnit))
        half_span_x_m == KmToM(half_span_x_km)
        half_span_y_m == KmToM(half_span_y_km)
        grid_width == half_span_x_m * 2
        grid_height == half_span_y_m * 2
        axis_z == Max2(grid_width, grid_height) \div 2
    IN  [half_span_x_km |-> half_span_x_km,
         half_span_y_km |-> half_span_y_km,
         half_span_x_m |-> half_span_x_m,
         half_span_y_m |-> half_span_y_m,
         grid_width |-> grid_width,
         grid_height |-> grid_height,
         axis_z |-> axis_z,
         new_target_distance |-> NewTargetDistance(grid_width, grid_height, axis_z)]

(***************************************************************************)
(* Frame projection pipeline                                               *)
(***************************************************************************)
VisibleCap == 256           \* records[:256]
DopplerUnit == 10 ^ 1       \* Doppler units per m/s
DopplerFloor == DopplerUnit \div 2   \* 0.5 m/s
RangeFloor == 1             \* least max_range_value, m
SizeUnit == 10 ^ 2          \* marker size units per pixel

\* max(seq[lo..hi]) of a sequence of integers, lo <= hi (by halves)
RECURSIVE SeqMax(_, _, _)
SeqMax(seq, lo, hi) ==
    IF lo = hi THEN seq[lo]
    ELSE CHOOSE m \in {Max2(a, b) :
                       a \in {SeqMax(seq, lo, (lo + hi) \div 2)},
                       b \in {SeqMax(seq, (lo + hi) \div 2 + 1, hi)}} : TRUE

\* Faulty variants of VisibleRecords: no cap; the last 256 instead of the first
VisibleRecordsUncapped(records) == records

VisibleRecordsTail(records) ==
    SubSeq(records, Len(records) - Min2(Len(records), VisibleCap) + 1, Len(records))

\* records[:256]
VisibleRecords(records) == SubSeq(records, 1, Min2(Len(records), VisibleCap))

\* max_doppler of _update_3d_view (lines 553-554), records non-empty
MaxDoppler(records) ==
    Max2(SeqMax([i \in 1..Len(records) |-> Abs(records[i].doppler)],
                1, Len(records)),
         DopplerFloor)

\* max_range_value of _update_3d_view (lines 556-557), visible non-empty
MaxRangeValue(visible_records) ==
    Max2(SeqMax([i \in 1..Len(visible_records) |-> visible_records[i].range],
                1, Len(visible_records)),
         RangeFloor)

\* np.clip(3 + snr * 0.16, 4, 18)
MarkerSize(snr) ==
    Min2(Max2(3 * SizeUnit + (snr * 16 * SizeUnit) \div 100, 4 * SizeUnit),
         18 * SizeUnit)

\* One iteration of the loop of _update_3d_view (lines 566-595): the
\* position, size and label data of the detection at ordinal idx
Descriptor(idx, record, metadata, mode, frame, max_range_value, max_doppler) ==
    CHOOSE r \in
        {[id |-> idx,
          pos |-> <<xy[1], xy[2],
                    Max2(0, platform_altitude
                            + Quot(record.range * Sin(elevation), TrigScale))>>,
          size |-> MarkerSize(record.snr),
          range |-> record.range,
          bearing |-> record.bearing_deg,
          elevation |-> elevation] :
         elevation \in {ResolveDetectionElevation(record, metadata)},
         xy \in {ProjectDetectionCoordinates(
                    [record EXCEPT !.elevation_deg =
                                       ResolveDetectionElevation(record, metadata)],
                    metadata, mode,
                    frame.half_span_x_m \div DistUnit,
                    frame.half_span_y_m \div DistUnit,
                    frame.half_span_x_m \div DistUnit,
                    max_range_value, max_doppler)},
         platform_altitude \in {ExtractAreaValue(metadata, "altitude_m",
                                    "platform_altitude_m", AltitudeDefault)}} : TRUE

\* The descriptors of a non-empty batch (lines 553-595)
Descriptors(records, metadata, mode, frame) ==
    CHOOSE r \in
        {[idx \in 1..Len(visible_records) |->
             Descriptor(idx, visible_records[idx], metadata, mode, frame,
                        max_range_value, max_doppler)] :
         visible_records \in {VisibleRecords(records)},
         max_range_value \in {MaxRangeValue(VisibleRecords(records))},
         max_doppler \in {MaxDoppler(records)}} : TRUE

(***************************************************************************)
(* Render objects and the rendering surface                                *)
(***************************************************************************)
\* The items _setup_ui attaches: grid, axis_item, scatter
GridItem == 1
AxisItem == 2
ScatterItem == 3
FixedItems == <<GridItem, AxisItem, ScatterItem>>

SphereRadius == 5           \* sphere_radius
TextGap == 2                \* text_offset = sphere_radius + 2.0

Ids(list) == {list[i].id : i \in 1..Len(list)}
Range(seq) == {seq[i] : i \in 1..Len(seq)}

\* GLViewWidget.addItem: items.append(item)
AddItem(items, id) == Append(items, id)

\* GLViewWidget.removeItem: items.remove(item), the first occurrence goes
RemoveItem(items, id) ==
    CHOOSE r \in
        {IF at = {} THEN items
         ELSE LET p == CHOOSE i \in at : \A j \in at : i <= j
              IN  SubSeq(items, 1, p - 1) \o SubSeq(items, p + 1, Len(items)) :
         at \in {{i \in 1..Len(items) : items[i] = id}}} : TRUE

\* item = list.pop(); gl_view.removeItem(item)
PopAndRemove(w) ==
    [items |-> RemoveItem(w.items, w.list[Len(w.list)].id),
     list |-> SubSeq(w.list, 1, Len(w.list) - 1),
     popped |-> w.popped \cup {Len(w.list)}]

\* count iterations of the pop loop (halved, to keep the evaluation shallow)
RECURSIVE PopLoop(_, _)
PopLoop(w, count) ==
    IF count = 0 THEN w
    ELSE IF count = 1 THEN PopAndRemove(w)
    ELSE CHOOSE r \in {PopLoop(h, count - count \div 2) :
                            h \in {PopLoop(w, count \div 2)}} : TRUE

NoDuplicates(seq) == Cardinality(Range(seq)) = Len(seq)

\* while list: item = list.pop(); gl_view.removeItem(item)
\* When no object is attached or listed twice, the loop removes exactly
\* the listed objects, and its result is computed at once.
PopAndRemoveAll(items, list) ==
    CHOOSE r \in
        {IF NoDuplicates(items) /\ Cardinality(victims) = Len(list)
         THEN [items |-> SelectSeq(items, LAMBDA x : x \notin victims),
               list |-> <<>>,
               popped |-> 1..Len(list)]
         ELSE PopLoop([items |-> items, list |-> list, popped |-> {}], Len(list)) :
         victims \in {Ids(list)}} : TRUE

\* Faulty variant of ClearDetectionLabels: the list is emptied, the labels stay attached
ClearLabelsKeepAttached(st) ==
    [st EXCEPT !.labels = <<>>,
               !.destroyed_labels = st.destroyed_labels \cup (1..Len(st.labels))]

\* PyQtVisualizer._clear_detection_labels
ClearDetectionLabels(st) ==
    CHOOSE r \in {[st EXCEPT !.items = w.items,
                             !.labels = w.list,
                             !.destroyed_labels = st.destroyed_labels \cup w.popped] :
                  w \in {PopAndRemoveAll(st.items, st.labels)}} : TRUE

\* Faulty variant of ClearDetectionSpheres: the labels are not cleared
ClearSpheresOnly(st) ==
    CHOOSE r \in {[st EXCEPT !.items = w.items,
                             !.spheres = w.list,
                             !.destroyed_spheres = st.destroyed_spheres \cup w.popped] :
                  w \in {PopAndRemoveAll(st.items, st.spheres)}} : TRUE

\* PyQtVisualizer._clear_detection_spheres
ClearDetectionSpheres(st) ==
    CHOOSE r \in {ClearDetectionLabels(c) :
                  c \in {[st EXCEPT !.items = w.items,
                                    !.spheres = w.list,
                                    !.destroyed_spheres =
                                        st.destroyed_spheres \cup w.popped] :
                         w \in {PopAndRemoveAll(st.items, st.spheres)}}} : TRUE

\* A newly constructed object is distinct from every object alive: ids
\* are handed out upwards from the first one above every live object's
FirstFreeId(st) ==
    CHOOSE k \in {SeqMax(ids, 1, Len(ids)) + 1 :
                  ids \in {st.items
                           \o [i \in 1..Len(st.spheres) |-> st.spheres[i].id]
                           \o [i \in 1..Len(st.labels) |-> st.labels[i].id]
                           \o <<0>>}} : TRUE

\* One iteration of the loop of _update_detection_spheres (lines 624-647)
CreateObject(st, d) ==
    LET sid == st.next
        lid == st.next + 1
        sphere == [id |-> sid, pos |-> d.pos]
        label == [id |-> lid,
                  pos |-> <<d.pos[1], d.pos[2],
                            d.pos[3] + SphereRadius + TextGap>>,
                  text |-> <<d.id, d.range * 10,
                             RoundDiv(d.bearing, MilliDeg \div 10),
                             RoundDiv(d.elevation, MilliDeg \div 10)>>]
    IN  [st EXCEPT !.items = AddItem(AddItem(st.items, sid), lid),
                   !.spheres = Append(st.spheres, sphere),
                   !.labels = Append(st.labels, label),
                   !.created_spheres = st.created_spheres \cup {Len(st.spheres) + 1},
                   !.created_labels = st.created_labels \cup {Len(st.labels) + 1},
                   !.next = lid + 1]

\* The loop over descriptors lo..hi, in order (halved, as PopLoop)
RECURSIVE CreateObjects(_, _, _, _)
CreateObjects(st, descs, lo, hi) ==
    IF lo > hi THEN st
    ELSE IF lo = hi THEN CHOOSE r \in {CreateObject(st, d) : d \in {descs[lo]}} : TRUE
    ELSE CHOOSE r \in {CreateObjects(h, descs, (lo + hi) \div 2 + 1, hi) :
                       h \in {CreateObjects(st, descs, lo, (lo + hi) \div 2)}} : TRUE

\* Faulty variant of UpdateDetectionSpheres: the previous objects are not cleared
UpdateWithoutClear(st, descs) ==
    CreateObjects([st EXCEPT !.next = FirstFreeId(st)], descs, 1, Len(descs))

\* PyQtVisualizer._update_detection_spheres
UpdateDetectionSpheres(st, descs) ==
    CHOOSE r \in {CreateObjects([c EXCEPT !.next = FirstFreeId(c)], descs, 1, Len(descs)) :
                  c \in {ClearDetectionSpheres(st)}} : TRUE

\* The synchronizer's working state at the start of a pass
SyncState(items, spheres, labels) ==
    [items |-> items, spheres |-> spheres, labels |-> labels,
     destroyed_spheres |-> {}, destroyed_labels |-> {},
     created_spheres |-> {}, created_labels |-> {}, next |-> 1]

(***************************************************************************)
(* Inputs                                                                  *)
(***************************************************************************)
MaxLen == 2                 \* longest batch enumerated record by record
OverCap == 1                \* how far a long batch may exceed the cap

MetaKeys == {"altitude_m", "platform_altitude_m", "area_width_km",
             "area_width", "area_height_km", "area_height"}

\* {} : no key present
EmptyMetadata == [k \in MetaKeys |-> Absent]

Meta(width, height, altitude) ==
    [EmptyMetadata EXCEPT !["area_width_km"] = width,
                          !["area_height_km"] = height,
                          !["altitude_m"] = altitude]

\* The metadata of the mapping tests
TestMetadata == Meta(Num(10 * KmUnit), Num(10 * KmUnit), Num(4000))

\* Scenario metadata a payload may carry: none; a 1 km x 1 km area; the
\* 10 km x 10 km area of the tests; the same area 0.4 mm wider; a 20 km
\* wide area named by its fallback key, with an unparsable height and a
\* platform on the ground.
MetaSet ==
    { EmptyMetadata,
      Meta(Num(1 * KmUnit), Num(1 * KmUnit), Num(8200)),
      TestMetadata,
      Meta(Num(10 * KmUnit + 4), Num(10 * KmUnit), Num(4000)),
      [EmptyMetadata EXCEPT !["area_width"] = Num(20 * KmUnit),
                            !["area_height_km"] = Unparsable,
                            !["platform_altitude_m"] = Num(0)] }

Det(rng, bearing, elevation, doppler, snr) ==
    [range |-> rng, bearing_deg |-> bearing, elevation_deg |-> elevation,
     doppler |-> doppler, snr |-> snr]

\* Detections: elevation unset; elevation trusted, receding; fast and
\* distant, with its elevation on the 1e-3 threshold
DetUnset == Det(5000, 45 * MilliDeg, 0, DopplerFloor, 10)
DetTrusted == Det(8000, 90 * MilliDeg, -30 * MilliDeg, -2 * DopplerUnit, 40)
DetFast == Det(12000, 200 * MilliDeg, ElevationEps, 100 * DopplerUnit, 100)

\* A detection some of whose fields hold a JSON null or a non-numeric
\* string: float() and the format code "f" raise on them.  The numeric
\* values of those fields are never read.
BadDet(d, fields) ==
    [range |-> d.range, bearing_deg |-> d.bearing_deg,
     elevation_deg |-> d.elevation_deg, doppler |-> d.doppler, snr |-> d.snr,
     bad |-> fields]

IsBad(record, field) == "bad" \in DOMAIN record /\ field \in record.bad

Malformed(record) == "bad" \in DOMAIN record /\ record.bad # {}

\* The i-th record of a long batch: all different, Doppler 1 m/s, every
\* eighth with its elevation unset
RampDet(i) ==
    Det(5000 + 10 * i, (i % 360) * MilliDeg,
        IF i % 8 = 0 THEN 0 ELSE -(i % 80) * MilliDeg - 2, DopplerUnit, i % 60)

\* A long batch: n - 1 ramp records, then d
LongBatch(n, d) == [i \in 1..n |-> IF i < n THEN RampDet(i) ELSE d]

SeqsUpTo(S, n) == UNION {[1..k -> S] : k \in 0..n}

\* Rows of the detection table (min(len(records), 12), line 425)
TableRows == 12

\* Batches of a source that also serves detections with malformed fields:
\* in a row of the table, past the table, and past the visible cap (with
\* the highest and with the lowest SNR of the batch)
MalformedBatches ==
    { <<>>, <<DetUnset>>, <<DetUnset, DetTrusted>>,
      <<BadDet(DetUnset, {"range"})>>,
      <<DetTrusted, BadDet(DetFast, {"snr"})>>,
      LongBatch(TableRows + 1, DetTrusted),
      LongBatch(TableRows + 1, BadDet(DetTrusted, {"elevation_deg"})),
      LongBatch(VisibleCap + 1, BadDet(DetFast, {"range"})),
      LongBatch(VisibleCap + 1, BadDet(RampDet(0), {"bearing_deg"})),
      LongBatch(VisibleCap + 1, BadDet(DetFast, {"doppler"})) }

\* What the telemetry source serves during a run: changing scenarios with
\* at most one detection; short batches of every make-up; or batches at
\* and over the visible cap
Feeds == {"frame", "short", "long"}

PayloadSet(f) ==
    IF f = "frame"
    THEN {<<>>, <<DetUnset>>} \X MetaSet
    ELSE IF f = "short"
    THEN SeqsUpTo({DetUnset, DetTrusted, DetFast}, MaxLen)
         \X {TestMetadata}
    ELSE IF f = "long"
    THEN ({<<>>, <<DetUnset>>}
          \cup {LongBatch(n, d) : n \in VisibleCap..(VisibleCap + OverCap),
                                  d \in {DetTrusted, DetFast}})
         \X {TestMetadata}
    ELSE MalformedBatches \X {TestMetadata}

ViewModes == {"polar", "cartesian"}
ZoomValues == {ZoomMin, ZoomNeutral, ZoomMax}

(***************************************************************************)
(* State machine                                                           *)
(***************************************************************************)
\* No function is under test
Idle == [fn |-> "none"]

NoPass ==
    [ran |-> FALSE, m |-> 0, n |-> 0,
     destroyed_spheres |-> {}, destroyed_labels |-> {},
     created_spheres |-> {}, created_labels |-> {},
     same_inputs |-> FALSE, same_scene |-> FALSE, zoom_applied |-> FALSE]

\* The window after PyQtVisualizer.__init__
\* time.time() when the window is built, in seconds
ConstructedAt == 1000

\* No stream handler has run yet
NoStreamEvent == [handler |-> "none", posted |-> <<>>]

Constructed ==
    /\ view_mode = "polar"
    /\ last_detection_records = <<>>
    /\ last_metadata = EmptyMetadata
    /\ camera_zoom_factor = ZoomNeutral
    /\ manual_zoom_active = FALSE
    /\ target_distance = InitTargetM * DistUnit
    /\ distance = InitCameraM * DistUnit
    /\ zoom_basis = InitTargetM * DistUnit
    /\ grid_size = <<6000 * DistUnit, 6000 * DistUnit>>
    /\ axis_size = <<6000 * DistUnit, 6000 * DistUnit, 6000 * DistUnit>>
    /\ axis_label = <<>>
    /\ scatter = [pos |-> <<>>, size |-> <<6 * SizeUnit>>, alpha |-> 100]
    /\ gl_items = FixedItems
    /\ detection_spheres = <<>>
    /\ detection_labels = <<>>
    /\ last_pass = NoPass
    /\ raised = FALSE
    /\ issued = 0
    /\ pending = {}
    /\ shown = 0
    /\ newest_done = 0
    /\ stream_running = FALSE
    /\ stream_remaining = 0
    /\ stream_elapsed = 0
    /\ stream_start_ts = ConstructedAt
    /\ stream_timer = FALSE
    /\ stream_log = NoStreamEvent
    /\ run_ticks = 0

Init ==
    /\ feed \in Feeds
    /\ probe = Idle
    /\ Constructed

\* What a list of render objects shows: each object's data without its identity
Content(list) == [i \in 1..Len(list) |-> [list[i] EXCEPT !.id = 0]]

\* Faulty variant of ReapplyZoom: only a changed target re-applies the zoom
ReapplyOnChangeOnly(distance_changed, manual) == distance_changed

\* Faulty variant of ReapplyZoom: every reframe re-applies the zoom
ReapplyAlways(distance_changed, manual) == TRUE

\* Whether _update_3d_view calls _apply_zoom (line 532)
ReapplyZoom(distance_changed, manual) == distance_changed \/ ~manual

\* The scatter data of a pass (lines 544-548 and 596-601)
ScatterData(descs) ==
    IF descs = <<>>
    THEN [pos |-> <<<<0, 0, 0>>>>, size |-> <<3 * SizeUnit>>, alpha |-> 90]
    ELSE [pos |-> [i \in 1..Len(descs) |-> descs[i].pos],
          size |-> [i \in 1..Len(descs) |-> descs[i].size],
          alpha |-> 95]

\* The render objects after a pass (lines 543-551 and 602)
Synchronize(st, records, descs) ==
    IF records = <<>> THEN ClearDetectionSpheres(st)
    ELSE UpdateDetectionSpheres(st, descs)

\* PyQtVisualizer._update_3d_view(records, metadata) under view mode `mode`
Update3dView(records, metadata, mode, same_inputs) ==
    \E frame \in {SceneFrame(metadata)} :
    \E descs \in {IF records = <<>> THEN <<>>
                  ELSE Descriptors(records, metadata, mode, frame)} :
    \E st \in {Synchronize(SyncState(gl_items, detection_spheres, detection_labels),
                           records, descs)} :
    \E data \in {ScatterData(descs)} :
    LET distance_changed ==
            Abs(frame.new_target_distance - target_distance) > ChangeEps
        apply == ReapplyZoom(distance_changed, manual_zoom_active)
    IN  /\ grid_size' = <<frame.grid_width, frame.grid_height>>
        /\ axis_size' = <<frame.grid_width, frame.grid_height, frame.axis_z>>
        /\ target_distance' = frame.new_target_distance
        /\ distance' = IF apply
                       THEN ZoomDistance(frame.new_target_distance,
                                         manual_zoom_active, camera_zoom_factor)
                       ELSE distance
        /\ zoom_basis' = IF apply THEN frame.new_target_distance ELSE zoom_basis
        /\ axis_label' =
               <<AxisTicksLabel(-frame.half_span_x_km, frame.half_span_x_km),
                 AxisTicksLabel(-frame.half_span_y_km, frame.half_span_y_km)>>
        /\ scatter' = data
        /\ gl_items' = st.items
        /\ detection_spheres' = st.spheres
        /\ detection_labels' = st.labels
        /\ last_pass' =
               [ran |-> TRUE,
                m |-> Len(detection_spheres),
                n |-> Len(descs),
                destroyed_spheres |-> st.destroyed_spheres,
                destroyed_labels |-> st.destroyed_labels,
                created_spheres |-> st.created_spheres,
                created_labels |-> st.created_labels,
                same_inputs |-> same_inputs,
                same_scene |-> /\ data = scatter
                               /\ Content(st.spheres) = Content(detection_spheres)
                               /\ Content(st.labels) = Content(detection_labels),
                zoom_applied |-> apply]
        /\ UNCHANGED <<camera_zoom_factor, manual_zoom_active>>

\* _update_detection_table raises (lines 427-445): a row of the table
\* formats or converts every field of its record
TableRaises(records) ==
    \E i \in 1..Min2(Len(records), TableRows) : Malformed(records[i])

\* _update_3d_view raises (lines 553-595): the Doppler of every record is
\* converted, and every field of a visible record
ViewRaises(records) ==
    \/ \E i \in 1..Len(records) : IsBad(records[i], "doppler")
    \/ \E i \in 1..Min2(Len(records), VisibleCap) : Malformed(records[i])

\* Whether sorted(records, key=snr, reverse=True)[:3] holds records[i]
InTopThree(records, i) ==
    Cardinality({j \in 1..Len(records) :
                    \/ records[j].snr > records[i].snr
                    \/ (records[j].snr = records[i].snr /\ j < i)}) < 3

\* _update_detection_summary raises (lines 451-458): the sort compares
\* the SNRs, and every field of the three records of highest SNR is formatted
SummaryRaises(records) ==
    /\ \E i \in 1..Len(records) : Malformed(records[i])
    /\ \/ \E i \in 1..Len(records) : IsBad(records[i], "snr")
       \/ \E i \in 1..Len(records) :
              Malformed(records[i]) /\ InTopThree(records, i)

\* _update_3d_view up to the exception raised in lines 553-595: the frame
\* is set, the markers and labels are those of the previous pass
Update3dViewAborted(metadata) ==
    \E frame \in {SceneFrame(metadata)} :
    LET distance_changed ==
            Abs(frame.new_target_distance - target_distance) > ChangeEps
        apply == ReapplyZoom(distance_changed, manual_zoom_active)
    IN  /\ grid_size' = <<frame.grid_width, frame.grid_height>>
        /\ axis_size' = <<frame.grid_width, frame.grid_height, frame.axis_z>>
        /\ target_distance' = frame.new_target_distance
        /\ distance' = IF apply
                       THEN ZoomDistance(frame.new_target_distance,
                                         manual_zoom_active, camera_zoom_factor)
                       ELSE distance
        /\ zoom_basis' = IF apply THEN frame.new_target_distance ELSE zoom_basis
        /\ axis_label' =
               <<AxisTicksLabel(-frame.half_span_x_km, frame.half_span_x_km),
                 AxisTicksLabel(-frame.half_span_y_km, frame.half_span_y_km)>>
        /\ UNCHANGED <<scatter, gl_items, detection_spheres, detection_labels,
                       last_pass, camera_zoom_factor, manual_zoom_active>>

\* PyQtVisualizer._handle_payload(payload).  An exception that leaves the
\* slot ends the program (PyQt6 aborts on an unhandled exception in a slot).
HandlePayloadWith(payload) ==
    /\ UNCHANGED <<view_mode, feed>>
    /\ IF TableRaises(payload[1])
       THEN /\ raised' = TRUE
            /\ UNCHANGED <<last_detection_records, last_metadata,
                           camera_zoom_factor, manual_zoom_active,
                           target_distance, distance, zoom_basis, grid_size,
                           axis_size, axis_label, scatter, gl_items,
                           detection_spheres, detection_labels, last_pass>>
       ELSE /\ last_detection_records' = payload[1]
            /\ last_metadata' = payload[2]
            /\ IF ViewRaises(payload[1])
               THEN /\ raised' = TRUE
                    /\ Update3dViewAborted(payload[2])
               ELSE /\ raised' = SummaryRaises(payload[1])
                    /\ Update3dView(payload[1], payload[2], view_mode,
                                    /\ last_pass.ran
                                    /\ payload[1] = last_detection_records
                                    /\ payload[2] = last_metadata)

\* The result signal of a fetch reaches PyQtVisualizer._handle_payload
HandlePayload ==
    /\ ~raised
    /\ \E payload \in PayloadSet(feed) : HandlePayloadWith(payload)
    /\ UNCHANGED <<fetch_vars, stream_vars, probe>>

\* Faulty variant of ChangeViewMode: the mode is stored, the scene is not redrawn
ChangeViewModeWithoutRedraw ==
    \E mode \in ViewModes :
        /\ ~raised
        /\ view_mode' = mode
        /\ UNCHANGED <<feed, last_detection_records, last_metadata,
                       camera_zoom_factor, manual_zoom_active, target_distance,
                       distance, zoom_basis, grid_size, axis_size, axis_label,
                       scatter, gl_items, detection_spheres, detection_labels,
                       last_pass, raised, fetch_vars, stream_vars, probe>>

\* PyQtVisualizer._change_view_mode
ChangeViewMode ==
    \E mode \in ViewModes :
        /\ ~raised
        /\ view_mode' = mode
        /\ UNCHANGED <<last_detection_records, last_metadata, feed, raised,
                       fetch_vars, stream_vars, probe>>
        /\ Update3dView(last_detection_records, last_metadata, mode,
                        last_pass.ran /\ mode = view_mode)

\* PyQtVisualizer._camera_zoom_changed, on the slider's valueChanged
CameraZoomChanged ==
    \E value \in ZoomValues :
        /\ ~raised
        /\ value # camera_zoom_factor
        /\ camera_zoom_factor' = value
        /\ manual_zoom_active' = (value # ZoomNeutral)
        /\ distance' = ZoomDistance(target_distance, value # ZoomNeutral, value)
        /\ zoom_basis' = target_distance
        /\ UNCHANGED <<feed, view_mode, last_detection_records, last_metadata,
                       target_distance, grid_size, axis_size, axis_label,
                       scatter, gl_items, detection_spheres, detection_labels,
                       last_pass, raised, fetch_vars, stream_vars, probe>>

Next == HandlePayload \/ ChangeViewMode \/ CameraZoomChanged

Spec == Init /\ [][Next]_vars

(***************************************************************************)
(* Polling: payload_timer, FetchPayloadTask and the thread pool            *)
(***************************************************************************)
MaxFetches == 3             \* fetches started during a run

\* PyQtVisualizer._poll_payload, on a tick of payload_timer: a new task is
\* started whether or not earlier ones have finished
PollPayload ==
    /\ ~raised
    /\ issued < MaxFetches
    /\ issued' = issued + 1
    /\ pending' = pending \cup {issued + 1}
    /\ UNCHANGED <<feed, view_mode, last_detection_records, last_metadata,
                   camera_zoom_factor, manual_zoom_active, target_distance,
                   distance, zoom_basis, grid_size, axis_size, axis_label,
                   scatter, gl_items, detection_spheres, detection_labels,
                   last_pass, raised, shown, newest_done, stream_vars, probe>>

\* FetchPayloadTask.run succeeds (lines 57-59) and its result signal is
\* delivered: the tasks of the pool finish in any order
FetchResult ==
    /\ ~raised
    /\ \E k \in pending :
          /\ pending' = pending \ {k}
          /\ shown' = k
          /\ newest_done' = Max2(newest_done, k)
    /\ \E payload \in PayloadSet(feed) : HandlePayloadWith(payload)
    /\ UNCHANGED <<issued, stream_vars, probe>>

\* FetchPayloadTask.run fails (lines 60-61): _handle_payload_error only
\* writes the status label and the log
FetchError ==
    /\ ~raised
    /\ \E k \in pending : pending' = pending \ {k}
    /\ UNCHANGED <<feed, view_mode, last_detection_records, last_metadata,
                   camera_zoom_factor, manual_zoom_active, target_distance,
                   distance, zoom_basis, grid_size, axis_size, axis_label,
                   scatter, gl_items, detection_spheres, detection_labels,
                   last_pass, raised, issued, shown, newest_done, stream_vars, probe>>

InitFetch ==
    /\ feed = "frame"
    /\ probe = Idle
    /\ Constructed

NextFetch ==
    PollPayload \/ FetchResult \/ FetchError \/ ChangeViewMode \/ CameraZoomChanged

SpecFetch == InitFetch /\ [][NextFetch]_vars

\* The window fed by a source that also serves malformed detections
InitMalformed ==
    /\ feed = "malformed"
    /\ probe = Idle
    /\ Constructed

SpecMalformed == InitMalformed /\ [][Next]_vars

(***************************************************************************)
(* The 10-minute streaming run: stream_button and stream_timer             *)
(***************************************************************************)
STREAM_DURATION_SECS == 600

\* time.time() at a click on the stream button, in seconds
StartTimes == {2000, 5000}

\* PyQtVisualizer._start_stream: _send_config posts one config stamped with
\* the start time, then the timer is started
StartStream(now) ==
    /\ stream_running' = TRUE
    /\ stream_remaining' = STREAM_DURATION_SECS
    /\ stream_elapsed' = 0
    /\ stream_start_ts' = now
    /\ stream_timer' = TRUE
    /\ stream_log' = [handler |-> "start", posted |-> <<now>>]
    /\ run_ticks' = 0

\* PyQtVisualizer._stop_stream, called from the handler named
StopStream(handler) ==
    /\ stream_running' = FALSE
    /\ stream_timer' = FALSE
    /\ stream_log' = [handler |-> handler, posted |-> <<>>]
    /\ UNCHANGED <<stream_remaining, stream_elapsed, stream_start_ts, run_ticks>>

\* PyQtVisualizer._toggle_stream, on a click on the stream button
ToggleStream ==
    /\ ~raised
    /\ IF stream_running
       THEN StopStream("stop")
       ELSE \E now \in StartTimes : StartStream(now)
    /\ UNCHANGED <<feed, view_mode, last_detection_records, last_metadata,
                   camera_zoom_factor, manual_zoom_active, target_distance,
                   distance, zoom_basis, grid_size, axis_size, axis_label,
                   scatter, gl_items, detection_spheres, detection_labels,
                   last_pass, raised, fetch_vars, probe>>

\* Faulty variant of TickStops: the run ends one second early
TickStopsEarly(remaining) == remaining <= 1

\* The test of line 303
TickStops(remaining) == remaining <= 0

\* PyQtVisualizer._stream_tick, on a timeout of the active stream_timer
StreamTick ==
    /\ ~raised
    /\ stream_timer
    /\ IF TickStops(stream_remaining)
       THEN StopStream("tick")
       ELSE /\ stream_elapsed' = stream_elapsed + 1
            /\ stream_remaining' = stream_remaining - 1
            /\ stream_log' = [handler |-> "tick",
                              posted |-> <<stream_start_ts + stream_elapsed>>]
            /\ run_ticks' = run_ticks + 1
            /\ UNCHANGED <<stream_running, stream_start_ts, stream_timer>>
    /\ UNCHANGED <<feed, view_mode, last_detection_records, last_metadata,
                   camera_zoom_factor, manual_zoom_active, target_distance,
                   distance, zoom_basis, grid_size, axis_size, axis_label,
                   scatter, gl_items, detection_spheres, detection_labels,
                   last_pass, raised, fetch_vars, probe>>

InitStream ==
    /\ feed = "frame"
    /\ probe = Idle
    /\ Constructed

NextStream == ToggleStream \/ StreamTick \/ ChangeViewMode

\* An active QTimer keeps firing while the event loop runs
SpecStream == InitStream /\ [][NextStream]_vars /\ WF_vars(StreamTick)

(***************************************************************************)
(* The functions of the pipeline, each applied to inputs of its own        *)
(***************************************************************************)
\* Elevations (millidegrees) around the 1e-3 threshold and at the extremes
ElevationInputs ==
    {-90 * MilliDeg, -30 * MilliDeg, -2, -1, 0, 1, 2, 45 * MilliDeg, 90 * MilliDeg}

\* Ranges (m): negative, zero, below, at and above the altitudes
RangeInputs == {-100, 0, 1000, 4000, 4001, 4500, 5000, 8000, 12000, 20000}

\* Metadata that differ in the platform altitude: missing, null, not a
\* number, on or below the ground, given by either key
AltitudeMetas ==
    {EmptyMetadata, TestMetadata}
    \cup {[EmptyMetadata EXCEPT !["altitude_m"] = v] :
            v \in {Null, Unparsable, Num(0), Num(-50), Num(1000), Num(8200)}}
    \cup {[EmptyMetadata EXCEPT !["platform_altitude_m"] = Num(1000)]}

ResolveProbes ==
    {[fn |-> "resolve", record |-> Det(r, 0, e, 0, 0), metadata |-> m,
      done |-> FALSE, out |-> 0] :
     r \in RangeInputs, e \in ElevationInputs, m \in AltitudeMetas}

\* Arguments of project_detection_coordinates: detections in front of,
\* at and behind the platform, looking level, down, straight down and
\* past the vertical; every quadrant of bearing; Doppler inside and far
\* outside the maximum; view modes the window knows and one it does not
ProjectRanges == {-100, 0, 5000, 8000, 20000}
ProjectBearings ==
    {0, 45 * MilliDeg, 90 * MilliDeg, 135 * MilliDeg, 200 * MilliDeg, -45 * MilliDeg}
ProjectElevations == {0, -30 * MilliDeg, 89999, -90 * MilliDeg, 120 * MilliDeg}
ProjectDopplers == {-2 * DopplerUnit, DopplerFloor, 100 * DopplerUnit}
ProjectModes == {"polar", "cartesian", "range-doppler"}
ProjectSpans == {<<5000, 5000>>, <<10000, 4000>>}
ProjectRadii == {0, 5000, 10000}
ProjectMaxRanges == {1, 5000, 8000}
ProjectMaxDopplers == {0, DopplerUnit}

ProjectProbes ==
    {[fn |-> "project", record |-> Det(r, b, e, d, 0), metadata |-> TestMetadata,
      mode |-> mode, half_span_x_m |-> span[1], half_span_y_m |-> span[2],
      area_radius |-> radius, max_range_value |-> mr, max_doppler |-> md,
      done |-> FALSE, out |-> <<0, 0>>] :
     r \in ProjectRanges, b \in ProjectBearings, e \in ProjectElevations,
     d \in ProjectDopplers, mode \in ProjectModes, span \in ProjectSpans,
     radius \in ProjectRadii, mr \in ProjectMaxRanges, md \in ProjectMaxDopplers}

\* Values of a metadata key: missing, null, a non-numeric string, a list,
\* numbers below and above the floor, an integer of 400 digits, NaN
KeyValues ==
    {Absent, Null, Unparsable, WrongType, Num(5 * KmUnit), Num(25 * KmUnit),
     Huge, NaN}

\* The lookups the window makes: the area width and the platform altitude
ExtractCalls ==
    {[primary |-> "area_width_km", fallback |-> "area_width",
      default |-> 10 * KmUnit],
     [primary |-> "altitude_m", fallback |-> "platform_altitude_m",
      default |-> 4000]}

ExtractProbes ==
    {[fn |-> "extract",
      metadata |-> [EmptyMetadata EXCEPT ![c.primary] = pv, ![c.fallback] = fv],
      primary |-> c.primary, fallback |-> c.fallback, default |-> c.default,
      done |-> FALSE, out |-> [kind |-> "none"]] :
     c \in ExtractCalls, pv \in KeyValues, fv \in KeyValues}

Probes == ResolveProbes \cup ProjectProbes \cup ExtractProbes

\* A call of PyQtVisualizer._extract_area_value
ExtractValue ==
    /\ probe.fn = "extract"
    /\ ~probe.done
    /\ probe' = [probe EXCEPT !.done = TRUE,
                              !.out = ExtractOutcome(probe.metadata, probe.primary,
                                                     probe.fallback, probe.default)]
    /\ UNCHANGED <<feed, view_mode, last_detection_records, last_metadata,
                   camera_zoom_factor, manual_zoom_active, target_distance,
                   distance, zoom_basis, grid_size, axis_size, axis_label,
                   scatter, gl_items, detection_spheres, detection_labels,
                   last_pass, raised, fetch_vars, stream_vars>>

\* A call of PyQtVisualizer._resolve_detection_elevation
ResolveElevation ==
    /\ probe.fn = "resolve"
    /\ ~probe.done
    /\ probe' = [probe EXCEPT !.done = TRUE,
                              !.out = ResolveDetectionElevation(probe.record,
                                                                probe.metadata)]
    /\ UNCHANGED <<feed, view_mode, last_detection_records, last_metadata,
                   camera_zoom_factor, manual_zoom_active, target_distance,
                   distance, zoom_basis, grid_size, axis_size, axis_label,
                   scatter, gl_items, detection_spheres, detection_labels,
                   last_pass, raised, fetch_vars, stream_vars>>

\* project_detection_coordinates on the arguments q
Projected(q) ==
    ProjectDetectionCoordinates(q.record, q.metadata, q.mode, q.half_span_x_m,
                                q.half_span_y_m, q.area_radius,
                                q.max_range_value, q.max_doppler)

\* A call of geometry.project_detection_coordinates
ProjectCoordinates ==
    /\ probe.fn = "project"
    /\ ~probe.done
    /\ probe' = [probe EXCEPT !.done = TRUE, !.out = Projected(probe)]
    /\ UNCHANGED <<feed, view_mode, last_detection_records, last_metadata,
                   camera_zoom_factor, manual_zoom_active, target_distance,
                   distance, zoom_basis, grid_size, axis_size, axis_label,
                   scatter, gl_items, detection_spheres, detection_labels,
                   last_pass, raised, fetch_vars, stream_vars>>

InitPure ==
    /\ feed = "frame"
    /\ probe \in Probes
    /\ Constructed

NextPure == ResolveElevation \/ ProjectCoordinates \/ ExtractValue

SpecPure == InitPure /\ [][NextPure]_vars

(***************************************************************************)
(* Properties                                                              *)
(***************************************************************************)
\* The number of descriptors the claims speak of: the batch, capped
CappedCount == Min2(Len(last_detection_records), VisibleCap)

\* The marker and label items attached to the rendering surface
AttachedObjects == SelectSeq(gl_items, LAMBDA x : x \notin Range(FixedItems))

\* C1: after every update pass the number of live markers, and equally of
\* live labels, is the number of descriptors of that pass, the detection
\* count capped at 256; after a pass with no detections it is 0.
C1_LiveCountIsCappedCount ==
    /\ Len(detection_spheres) = CappedCount
    /\ Len(detection_labels) = CappedCount
    /\ last_pass.ran => last_pass.n = CappedCount
    /\ last_detection_records = <<>> => Len(detection_spheres) = 0

C1_Witness ==
    /\ last_pass.ran
    /\ Len(last_detection_records) > VisibleCap
    /\ Len(detection_spheres) = VisibleCap
    /\ last_pass.m = 1

C4_AttachedAreExactlyTheListed ==
    /\ NoDuplicates(AttachedObjects)
    /\ Range(AttachedObjects) = Ids(detection_spheres) \cup Ids(detection_labels)
    /\ Len(AttachedObjects) = Len(detection_spheres) + Len(detection_labels)
    /\ Len(detection_spheres) = Len(detection_labels)

C4_Witness ==
    /\ last_pass.ran
    /\ last_pass.m = VisibleCap
    /\ Len(detection_spheres) = 1
    /\ Len(AttachedObjects) = 2

\* C5: a non-empty batch of n detections renders exactly its first
\* min(n, 256) detections, in input order, at the ordinals 1..min(n, 256).
C5_FirstCappedDetectionsInOrder ==
    last_detection_records # <<>> =>
        /\ Len(detection_labels) = CappedCount
        /\ Len(detection_spheres) = CappedCount
        /\ Len(scatter.pos) = CappedCount
        /\ \A k \in 1..Len(detection_labels) :
              /\ detection_labels[k].text[1] = k
              /\ detection_labels[k].text[2] = 10 * last_detection_records[k].range
              /\ detection_labels[k].text[3] =
                     RoundDiv(last_detection_records[k].bearing_deg, 100)
              /\ k <= Len(scatter.size)
              /\ scatter.size[k] = MarkerSize(last_detection_records[k].snr)
              /\ k <= Len(detection_spheres)
              /\ detection_spheres[k].pos = scatter.pos[k]

C5_Witness ==
    /\ Len(last_detection_records) = VisibleCap + 1
    /\ Len(detection_labels) = VisibleCap
    /\ detection_labels[VisibleCap].text[1] = VisibleCap

\* C6 as claimed: the normalization denominators are those of the visible
\* batch, so the detections beyond the 256th do not move any marker: the
\* scene of a batch is the scene of its first 256 detections.
C6_OnlyVisibleDetectionsPlaceMarkers ==
    (last_pass.ran /\ last_detection_records # <<>>) =>
        scatter.pos =
            ScatterData(Descriptors(VisibleRecords(last_detection_records),
                                    last_metadata, view_mode,
                                    SceneFrame(last_metadata))).pos

\* The case of C6: in the Cartesian view, 256 detections of Doppler 1 m/s
\* followed by a 257th of Doppler 100 m/s put every marker at y = 100 m
\* where the first 256 alone put it at y = 10000 m.
C6_Witness ==
    /\ last_pass.ran
    /\ view_mode = "cartesian"
    /\ Len(last_detection_records) = VisibleCap + 1
    /\ last_detection_records[VisibleCap + 1] = DetFast
    /\ Len(scatter.pos) = VisibleCap
    /\ scatter.pos[1][2] = 100
    /\ ScatterData(Descriptors(VisibleRecords(last_detection_records),
                               last_metadata, view_mode,
                               SceneFrame(last_metadata))).pos[1][2] = 10000

\* C7: while manual zoom is off, the displayed camera distance is the
\* target distance.
C7_AutoZoomTracksTarget ==
    ~manual_zoom_active => distance = target_distance

C7_Witness ==
    /\ ~manual_zoom_active
    /\ last_pass.ran
    /\ distance = 40000 * DistUnit
    /\ target_distance = 40000 * DistUnit

\* The zoom rule of manual mode on a target distance t
ManualZoomRule(t) ==
    Max2(MulDiv(t, camera_zoom_factor, 100), 3000 * DistUnit)

AreaWidthKm ==
    ExtractAreaValue(last_metadata, "area_width_km", "area_width", 10 * KmUnit)

AreaHeightKm ==
    ExtractAreaValue(last_metadata, "area_height_km", "area_height", 10 * KmUnit)

\* 2000 * max(km, 10) metres, in distance units
GridExtent(km) == ((2000 * DistUnit) \div KmUnit) * Max2(km, 10 * KmUnit)

\* C9: after a reframe the grid is 2000 * max(area, 10) wide and high,
\* the axis half-extent is half the larger grid extent, and the target
\* distance is max(grid_width, grid_height, axis_extent, 6000); for a
\* 10 km x 10 km area it is 20000.
C9_TargetDistanceOfFrame ==
    last_pass.ran =>
        /\ grid_size = <<GridExtent(AreaWidthKm), GridExtent(AreaHeightKm)>>
        /\ axis_size = <<grid_size[1], grid_size[2],
                         Max2(grid_size[1], grid_size[2]) \div 2>>
        /\ target_distance =
               Max2(Max2(grid_size[1], grid_size[2]),
                    Max2(axis_size[3], 6000 * DistUnit))
        /\ (AreaWidthKm = 10 * KmUnit /\ AreaHeightKm = 10 * KmUnit)
               => target_distance = 20000 * DistUnit

C9_Witness ==
    /\ last_pass.ran
    /\ last_metadata = TestMetadata
    /\ target_distance = 20000 * DistUnit

\* C10 as claimed: a 1 km x 1 km scenario reframes to the target
\* distance 6000.
C10_SmallScenarioFloorsAt6000 ==
    (last_pass.ran /\ AreaWidthKm = 1 * KmUnit /\ AreaHeightKm = 1 * KmUnit)
        => target_distance = 6000 * DistUnit

\* C10 as amended: a 1 km x 1 km scenario reframes to the target distance
\* 20000, because both extents are first raised to 10 km; no reframe
\* yields a target below 20000, so the floor of 6000 never decides.
C10_SmallScenarioFramesAt20000 ==
    /\ (last_pass.ran /\ AreaWidthKm = 1 * KmUnit /\ AreaHeightKm = 1 * KmUnit)
           => target_distance = 20000 * DistUnit
    /\ last_pass.ran => target_distance >= 20000 * DistUnit

C10_Witness ==
    /\ last_pass.ran
    /\ AreaWidthKm = 1 * KmUnit
    /\ AreaHeightKm = 1 * KmUnit
    /\ target_distance = 20000 * DistUnit

\* The platform altitude a metadata record stands for (4000 m by default)
AltitudeOf(metadata) ==
    ExtractAreaValue(metadata, "altitude_m", "platform_altitude_m", 4000)

\* C11: for every detection with |elevation_deg| > 1e-3 and every
\* metadata, whatever it says about the altitude,
\* _resolve_detection_elevation returns the detection's elevation_deg.
C11_TrustedElevationIsReturned ==
    (probe.fn = "resolve" /\ probe.done
     /\ (probe.record.elevation_deg > 1 \/ probe.record.elevation_deg < -1))
        => probe.out = probe.record.elevation_deg

C11_Witness ==
    /\ probe.fn = "resolve"
    /\ probe.done
    /\ probe.record.elevation_deg = -2
    /\ probe.record.range = 5000
    /\ probe.metadata = EmptyMetadata
    /\ probe.out = -2

\* C12: for a detection with elevation_deg = 0, _resolve_detection_elevation
\* returns 0 when range <= 0 or altitude <= 0 (altitude 4000 when missing);
\* when range > altitude > 0 it returns a negative angle above -90 degrees
\* whose sine is -altitude/range (to 2e-5) and which is steeper for every
\* shorter range that is still above the altitude.
C12_SynthesizedElevation ==
    (probe.fn = "resolve" /\ probe.done /\ probe.record.elevation_deg = 0) =>
        LET rng == probe.record.range
            altitude == AltitudeOf(probe.metadata)
        IN  /\ (rng <= 0 \/ altitude <= 0) => probe.out = 0
            /\ (rng > altitude /\ altitude > 0) =>
                  /\ probe.out < 0
                  /\ probe.out > -90 * MilliDeg
                  /\ Abs(Sin(-probe.out) - (altitude * TrigScale) \div rng) <= 2
                  /\ \A nearer \in RangeInputs :
                        (altitude < nearer /\ nearer < rng) =>
                            ResolveDetectionElevation(
                                [probe.record EXCEPT !.range = nearer],
                                probe.metadata) < probe.out

C12_Witness ==
    /\ probe.fn = "resolve"
    /\ probe.done
    /\ probe.record.elevation_deg = 0
    /\ probe.record.range = 8000
    /\ probe.metadata = TestMetadata
    /\ probe.out = -30 * MilliDeg

\* range * cos(elevation), scaled by TrigScale, of the detection under test
GroundRangeScaled == probe.record.range * Cos(probe.record.elevation_deg)

\* C13: in polar mode every projected point lies within area_radius of the
\* origin, whatever the range and the elevation: a horizontal range below
\* zero (negative range, elevation past the vertical) puts the point at
\* the origin, and one beyond area_radius puts it at distance area_radius.
C13_HorizontalRangeIsClamped ==
    (probe.fn = "project" /\ probe.done /\ probe.mode = "polar") =>
        /\ probe.out[1] * probe.out[1] + probe.out[2] * probe.out[2]
               <= probe.area_radius * probe.area_radius
        /\ GroundRangeScaled <= 0 => probe.out = <<0, 0>>
        /\ (GroundRangeScaled >= probe.area_radius * TrigScale
            /\ probe.record.bearing_deg = 0) => probe.out = <<probe.area_radius, 0>>

C13_Witness ==
    /\ probe.fn = "project"
    /\ probe.done
    /\ probe.mode = "polar"
    /\ probe.record.range = 20000
    /\ probe.record.elevation_deg = 0
    /\ probe.record.bearing_deg = 0
    /\ probe.area_radius = 5000
    /\ probe.out = <<5000, 0>>

\* The horizontal range of the detection under test, clamped (metres)
ClampedGroundRange ==
    Min2(Max2(Quot(GroundRangeScaled, TrigScale), 0), probe.area_radius)

\* C14: in polar mode project_detection_coordinates returns
\* x = h * cos(bearing), y = h * sin(bearing) with h the clamped horizontal
\* range, whatever the Doppler, max_doppler, max_range_value and the half
\* spans are; elevation 0, bearing 45, range 5000 and area_radius >= 5000
\* give x = y = 3535 (5000 / sqrt(2), in whole metres).
C14_PolarUsesBearing ==
    (probe.fn = "project" /\ probe.done /\ probe.mode = "polar") =>
        /\ probe.out[1] * TrigScale <= ClampedGroundRange * Cos(probe.record.bearing_deg)
              + (TrigScale - 1)
        /\ probe.out[1] * TrigScale >= ClampedGroundRange * Cos(probe.record.bearing_deg)
              - (TrigScale - 1)
        /\ probe.out[2] * TrigScale <= ClampedGroundRange * Sin(probe.record.bearing_deg)
              + (TrigScale - 1)
        /\ probe.out[2] * TrigScale >= ClampedGroundRange * Sin(probe.record.bearing_deg)
              - (TrigScale - 1)
        /\ \A d \in ProjectDopplers, md \in ProjectMaxDopplers,
              mr \in ProjectMaxRanges, span \in ProjectSpans :
              Projected([probe EXCEPT !.record.doppler = d, !.max_doppler = md,
                                      !.max_range_value = mr,
                                      !.half_span_x_m = span[1],
                                      !.half_span_y_m = span[2]]) = probe.out
        /\ (probe.record.elevation_deg = 0 /\ probe.record.bearing_deg = 45 * MilliDeg
            /\ probe.record.range = 5000 /\ probe.area_radius >= 5000)
               => probe.out = <<3535, 3535>>

C14_Witness ==
    /\ probe.fn = "project"
    /\ probe.done
    /\ probe.mode = "polar"
    /\ probe.record.range = 5000
    /\ probe.record.bearing_deg = 45 * MilliDeg
    /\ probe.record.elevation_deg = 0
    /\ probe.area_radius = 5000
    /\ probe.max_range_value = 5000
    /\ probe.max_doppler = DopplerUnit
    /\ probe.half_span_x_m = 5000
    /\ probe.out = <<3535, 3535>>

\* C15: in every view mode other than polar project_detection_coordinates
\* returns x = (range / max_range_value) * half_span_x_m and
\* y = clamp(doppler / max_doppler, -1, 1) * half_span_y_m, y = 0 when
\* max_doppler <= 0, whatever the bearing, the elevation and area_radius
\* are; range 8000, Doppler 0.5, max_range 8000, max_doppler 1.0 and half
\* spans 5000 give (5000, 2500).
C15_CartesianUsesRangeAndDoppler ==
    (probe.fn = "project" /\ probe.done /\ probe.mode # "polar") =>
        LET rng == probe.record.range
            doppler == probe.record.doppler
            x == probe.out[1]
            y == probe.out[2]
        IN  /\ Abs(x * probe.max_range_value - rng * probe.half_span_x_m)
                   < probe.max_range_value
            /\ probe.max_doppler <= 0 => y = 0
            /\ (probe.max_doppler > 0 /\ Abs(doppler) <= probe.max_doppler) =>
                   Abs(y * probe.max_doppler - doppler * probe.half_span_y_m)
                       < probe.max_doppler
            /\ (probe.max_doppler > 0 /\ doppler > probe.max_doppler) =>
                   y = probe.half_span_y_m
            /\ (probe.max_doppler > 0 /\ doppler < -probe.max_doppler) =>
                   y = -probe.half_span_y_m
            /\ \A b \in ProjectBearings :
                   Projected([probe EXCEPT !.record.bearing_deg = b]) = probe.out
            /\ \A e \in ProjectElevations :
                   Projected([probe EXCEPT !.record.elevation_deg = e]) = probe.out
            /\ \A radius \in ProjectRadii :
                   Projected([probe EXCEPT !.area_radius = radius]) = probe.out
            /\ (rng = 8000 /\ doppler = DopplerUnit \div 2
                /\ probe.max_range_value = 8000 /\ probe.max_doppler = DopplerUnit
                /\ probe.half_span_x_m = 5000 /\ probe.half_span_y_m = 5000)
                   => probe.out = <<5000, 2500>>

C15_Witness ==
    /\ probe.fn = "project"
    /\ probe.done
    /\ probe.mode = "cartesian"
    /\ probe.record.range = 8000
    /\ probe.record.doppler = DopplerUnit \div 2
    /\ probe.record.bearing_deg = 90 * MilliDeg
    /\ probe.max_range_value = 8000
    /\ probe.max_doppler = DopplerUnit
    /\ probe.half_span_x_m = 5000
    /\ probe.half_span_y_m = 5000
    /\ probe.area_radius = 5000
    /\ probe.out = <<5000, 2500>>

\* The descriptors of the latest payload under view mode `mode`
DescriptorsUnder(mode) ==
    IF last_detection_records = <<>> THEN <<>>
    ELSE Descriptors(last_detection_records, last_metadata, mode,
                     SceneFrame(last_metadata))

\* The scene shows exactly the descriptors descs
SceneShows(descs) ==
    /\ scatter = ScatterData(descs)
    /\ Len(detection_spheres) = Len(descs)
    /\ Len(detection_labels) = Len(descs)
    /\ \A k \in 1..Len(descs) :
          /\ detection_spheres[k].pos = descs[k].pos
          /\ detection_labels[k].text[1] = descs[k].id

\* After any update pass the scene is that of the latest payload under
\* the current view mode
SceneIsCurrent == last_pass.ran => SceneShows(DescriptorsUnder(view_mode))

\* A step that changes the view mode keeps the latest payload, the zoom
\* settings and the fetches as they are
SwitchKeepsInputs ==
    view_mode' # view_mode =>
        /\ last_detection_records' = last_detection_records
        /\ last_metadata' = last_metadata
        /\ camera_zoom_factor' = camera_zoom_factor
        /\ manual_zoom_active' = manual_zoom_active
        /\ issued' = issued
        /\ pending' = pending
        /\ shown' = shown
        /\ last_pass'.ran

\* C16: _change_view_mode(m) sets view_mode to m and redraws from the most
\* recently received detections and metadata, so that the scene is what
\* that payload produces under m; it starts no fetch and leaves
\* last_detection_records, last_metadata, the zoom factor and
\* manual_zoom_active unchanged.
C16_ViewSwitchRedrawsLatestPayload ==
    []SceneIsCurrent /\ [][SwitchKeepsInputs]_vars

C16_Witness ==
    /\ view_mode = "cartesian"
    /\ last_pass.ran
    /\ last_detection_records = <<DetUnset>>
    /\ last_metadata = TestMetadata
    /\ shown = 1
    /\ pending = {2}
    /\ manual_zoom_active
    /\ scatter.pos[1][1] = 10000
    /\ scatter.pos[1][2] = 10000

\* C17 as claimed: whatever the fields of a payload hold (absent, null,
\* a non-numeric string or a number), handling it raises nothing and
\* leaves a renderable scene: the scene is that of the stored payload
\* (the placeholder when it has no detections) and the attached markers
\* and labels are exactly the listed ones.
C17_NoPayloadIsFatal ==
    /\ raised = FALSE
    /\ NoDuplicates(AttachedObjects)
    /\ Range(AttachedObjects) = Ids(detection_spheres) \cup Ids(detection_labels)
    /\ last_pass.ran => SceneShows(DescriptorsUnder(view_mode))

\* The case of C17: a batch of 13 detections whose 13th has a null
\* elevation_deg passes the table, is stored, and raises in the 3-D
\* update after the frame is set: the markers are those of the pass before.
C17_Witness ==
    /\ raised
    /\ last_pass.ran
    /\ Len(last_detection_records) = TableRows + 1
    /\ IsBad(last_detection_records[TableRows + 1], "elevation_deg")
    /\ Len(detection_spheres) = 2
    /\ Len(scatter.pos) = 2

\* What a step that is not a slider change does to the displayed distance
ReframeStep ==
    camera_zoom_factor' = camera_zoom_factor =>
        /\ (manual_zoom_active /\ Abs(target_distance' - target_distance) <= DistUnit \div 1000)
               => distance' = distance
        /\ (~manual_zoom_active /\ last_pass'.ran)
               => distance' = Max2(target_distance', 3000 * DistUnit)
        /\ (manual_zoom_active /\ Abs(target_distance' - target_distance) > DistUnit \div 1000)
               => distance' = Max2(MulDiv(target_distance', camera_zoom_factor, 100),
                                   3000 * DistUnit)

\* C18: when manual zoom is on and a reframe's target distance differs
\* from the previous one by at most 1e-3, _update_3d_view leaves the
\* displayed camera distance as it was; when manual zoom is off or the
\* target moved by more than 1e-3, the zoom rule is applied to the new target.
C18_SmallReframeKeepsCamera == [][ReframeStep]_vars

C18_Witness ==
    /\ manual_zoom_active
    /\ camera_zoom_factor = 60
    /\ last_pass.ran
    /\ ~last_pass.zoom_applied
    /\ target_distance = 20000 * DistUnit + 8
    /\ distance = 12000 * DistUnit

\* The value the lookup q is said to return
ClaimedValue(q) ==
    LET found ==
            IF q.metadata[q.primary] # Absent THEN q.metadata[q.primary]
            ELSE q.metadata[q.fallback]
    IN  IF found.tag = "num" THEN found.v ELSE q.default

\* C19: a metadata lookup never fails and always yields a number: the value
\* of the primary key when that key is present, else the value of the
\* fallback key when that key is present, and the default when both keys
\* are missing or the value found is null or not parsable; an area extent
\* so obtained is at least 10 km after the floor.
C19_ExtractionAlwaysYieldsNumber ==
    (probe.fn = "extract" /\ probe.done) =>
        /\ probe.out.kind = "value"
        /\ probe.out.v = ClaimedValue(probe)
        /\ probe.primary = "area_width_km" =>
               /\ HalfSpanOutcome(probe.out).kind = "value"
               /\ HalfSpanOutcome(probe.out).v >= 10 * KmUnit

\* A lookup has left by an exception: the key holds an integer no double
\* can hold
C19_Witness ==
    /\ probe.fn = "extract"
    /\ probe.done
    /\ probe.metadata[probe.primary] = Huge
    /\ probe.out.kind = "OverflowError"

\* C20: under overlapping fetches the displayed scene and
\* last_detection_records come from the most recently issued fetch among
\* those whose result has arrived: a result of an earlier-issued fetch never
\* replaces the result of a later-issued one.
C20_DisplayedIsNewestCompleted == shown = newest_done

\* Two fetches overlapped and the first one's result arrived last: the
\* scene shows the payload of fetch 1 after that of fetch 2 was shown
C20_Witness ==
    /\ issued >= 2
    /\ newest_done = 2
    /\ shown = 1
    /\ last_pass.ran
    /\ ~raised

\* A step in which _stream_tick ran: every stream handler changes the log
TickStep == stream_log' # stream_log /\ stream_log'.handler = "tick"

\* Once a run has been started: the countdown adds up and stays in range
CountdownInRange ==
    /\ stream_running <=> stream_timer
    /\ stream_log.handler # "none" =>
           /\ stream_elapsed + stream_remaining = 600
           /\ 0 <= stream_remaining
           /\ stream_remaining <= 600

\* What a tick does, by the remaining seconds it finds
CountdownStep ==
    /\ (TickStep /\ stream_remaining > 0) =>
           /\ stream_log'.posted = <<stream_start_ts + stream_elapsed>>
           /\ stream_remaining' = stream_remaining - 1
           /\ stream_running'
    /\ (TickStep /\ stream_remaining <= 0) =>
           /\ ~stream_running'
           /\ stream_log'.posted = <<>>
           /\ run_ticks = 600
    /\ (stream_running /\ ~stream_running' /\ stream_log'.handler = "tick") =>
           /\ stream_remaining = 0
           /\ run_ticks = 600

\* The run is over: the user stopped it, or it ran its 600 posting ticks
RunEnded ==
    /\ ~stream_running
    /\ stream_log.handler = "stop" \/ (stream_log.handler = "tick" /\ run_ticks = 600)

\* C21: from _start_stream on, stream_elapsed + stream_remaining = 600 and
\* 0 <= stream_remaining <= 600; stream_running is true exactly while the
\* stream timer is active; a tick that finds remaining > 0 posts exactly one
\* config stamped start + elapsed-before-tick and takes one off remaining;
\* a run nobody stops ends by itself, on the first tick that finds
\* remaining <= 0, after exactly 600 posting ticks, and that tick posts nothing.
C21_StreamCountdown ==
    /\ []CountdownInRange
    /\ [][CountdownStep]_vars
    /\ (stream_running ~> RunEnded)

\* A run has ended by itself after its 600 posting ticks
C21_Witness ==
    /\ ~stream_running
    /\ ~stream_timer
    /\ stream_log = [handler |-> "tick", posted |-> <<>>]
    /\ run_ticks = 600
    /\ stream_elapsed = 600
    /\ stream_remaining = 0

====
